---- MODULE Spec2Model ----
(***************************************************************************)
(* The query language of aw-server-rust (src/query/mod.rs): a lexer, an    *)
(* LR parser and a tree-walking interpreter behind the entry point query.  *)
(*                                                                         *)
(* Source text is a sequence of one-character strings.  Numbers (f64) are  *)
(* modelled as exact fractions <<n, d>> in lowest terms with d > 0, and    *)
(* NaN as <<0, 0>>; with the small literals explored here no rounding,     *)
(* overflow or infinity arises.  Source spans are not modelled: nothing    *)
(* the interpreter computes reads them.                                    *)
(***************************************************************************)
EXTENDS Integers, Sequences, FiniteSets, TLC

(***************************************************************************)
(* Lexer (mod lexer)                                                       *)
(***************************************************************************)

WhitespaceChars == {" ", "\t", "\r", "\n"}

DigitChars == {"0", "1", "2", "3", "4", "5", "6", "7", "8", "9"}

IdentStartChars ==
    {"a", "b", "c", "d", "e", "f", "g", "h", "i", "j", "k", "l", "m",
     "n", "o", "p", "q", "r", "s", "t", "u", "v", "w", "x", "y", "z",
     "A", "B", "C", "D", "E", "F", "G", "H", "I", "J", "K", "L", "M",
     "N", "O", "P", "Q", "R", "S", "T", "U", "V", "W", "X", "Y", "Z", "_"}

IdentChars == IdentStartChars \cup DigitChars

PunctChars == {"=", "+", "-", "*", "/", "%", "(", ")", "[", "]", ",", ";"}

\* The token kind of each single-character rule.
PunctKind(c) ==
    CASE c = "=" -> "Equals"
      [] c = "+" -> "Plus"
      [] c = "-" -> "Minus"
      [] c = "*" -> "Star"
      [] c = "/" -> "Slash"
      [] c = "%" -> "Percent"
      [] c = "(" -> "LParen"
      [] c = ")" -> "RParen"
      [] c = "[" -> "LBracket"
      [] c = "]" -> "RBracket"
      [] c = "," -> "Comma"
      [] c = ";" -> "Semi"

\* A token: its kind and its payload (<<>> for a kind that carries none).
Token(kind, payload) == [k |-> kind, v |-> payload]

RECURSIVE RunLen(_, _, _)
\* The number of consecutive characters of text from index i that are in S.
RunLen(text, i, S) ==
    IF i <= Len(text) /\ text[i] \in S THEN 1 + RunLen(text, i + 1, S) ELSE 0

RECURSIVE RunLenNot(_, _, _)
\* The number of consecutive characters of text from index i that are not c.
RunLenNot(text, i, c) ==
    IF i <= Len(text) /\ text[i] # c THEN 1 + RunLenNot(text, i + 1, c) ELSE 0

\* The length each lexical rule matches at the start of a non-empty text
\* (0: no match), in the order the rules are written.
MatchWhitespace(text) == RunLen(text, 1, WhitespaceChars)

MatchComment(text) == IF text[1] = "#" THEN 1 + RunLenNot(text, 2, "\n") ELSE 0

MatchReturn(text) ==
    IF Len(text) >= 6 /\ SubSeq(text, 1, 6) = <<"r", "e", "t", "u", "r", "n">>
    THEN 6 ELSE 0

MatchString(text) ==
    IF text[1] = "\""
    THEN LET k == RunLenNot(text, 2, "\"")
         IN  IF k + 2 <= Len(text) THEN k + 2 ELSE 0
    ELSE 0

MatchNumber(text) ==
    LET a == RunLen(text, 1, DigitChars)
    IN  IF a = 0 THEN 0
        ELSE IF a + 1 <= Len(text) /\ text[a + 1] = "."
             THEN a + 1 + RunLen(text, a + 2, DigitChars)
             ELSE a

MatchIdent(text) ==
    IF text[1] \in IdentStartChars THEN 1 + RunLen(text, 2, IdentChars) ELSE 0

MatchPunct(text) == IF text[1] \in PunctChars THEN 1 ELSE 0

MatchAny(text) == 1

RuleLens(text) ==
    << MatchWhitespace(text), MatchComment(text), MatchReturn(text),
       MatchString(text), MatchNumber(text), MatchIdent(text),
       MatchPunct(text), MatchAny(text) >>

\* The rule that wins: the longest match, the first rule among equals.
WinningRule(lens) ==
    CHOOSE r \in 1..Len(lens) :
        /\ \A q \in 1..Len(lens) : lens[q] <= lens[r]
        /\ \A q \in 1..(r - 1) : lens[q] < lens[r]

DigitValue(c) ==
    CASE c = "0" -> 0 [] c = "1" -> 1 [] c = "2" -> 2 [] c = "3" -> 3
      [] c = "4" -> 4 [] c = "5" -> 5 [] c = "6" -> 6 [] c = "7" -> 7
      [] c = "8" -> 8 [] c = "9" -> 9

RECURSIVE GCD(_, _)
GCD(a, b) == IF b = 0 THEN a ELSE GCD(b, a % b)

Abs(n) == IF n < 0 THEN -n ELSE n

Min(a, b) == IF a < b THEN a ELSE b

\* The fraction n/d (d # 0) in lowest terms with a positive denominator.
Frac(n, d) ==
    LET g == GCD(Abs(n), Abs(d))
        s == IF d < 0 THEN -1 ELSE 1
    IN  << (s * n) \div g, (s * d) \div g >>

NaN == << 0, 0 >>

IsNaN(x) == x[2] = 0

RECURSIVE DigitsValue(_)
\* The integer a digit string denotes.
DigitsValue(ds) ==
    IF ds = << >> THEN 0
    ELSE 10 * DigitsValue(SubSeq(ds, 1, Len(ds) - 1)) + DigitValue(ds[Len(ds)])

RECURSIVE Pow10(_)
Pow10(k) == IF k = 0 THEN 1 ELSE 10 * Pow10(k - 1)

\* The number of a text whose first a characters are its integer digits
\* and whose characters after the point, if any, its fraction digits.
DecimalValue(text, a) ==
    Frac(DigitsValue(SubSeq(text, 1, a)) * Pow10(Len(text) - Min(a + 1, Len(text)))
           + DigitsValue(SubSeq(text, a + 2, Len(text))),
         Pow10(Len(text) - Min(a + 1, Len(text))))

\* text.parse::<f64>() of a text the number rule matched: digits, an
\* optional point, optional digits.  It does not fail on such a text.
ParseF64(text) == DecimalValue(text, RunLen(text, 1, DigitChars))

\* The token rule r makes of the text lex it matched.
RuleToken(r, lex) ==
    CASE r = 1 -> Token("Whitespace", << >>)
      [] r = 2 -> Token("Comment", << >>)
      [] r = 3 -> Token("Return", << >>)
      [] r = 4 -> Token("String", SubSeq(lex, 2, Len(lex) - 1))
      [] r = 5 -> Token("Number", ParseF64(lex))
      [] r = 6 -> Token("Ident", lex)
      [] r = 7 -> Token(PunctKind(lex[1]), << >>)

\* The outcome of rule r matching len characters of text: the last rule
\* panics, the others give a token and the text after it.
RuleOutcome(text, r, len) ==
    IF r = 8 THEN [m |-> "Panic"]
    ELSE [m |-> "Some", tok |-> RuleToken(r, SubSeq(text, 1, len)),
          remaining |-> SubSeq(text, len + 1, Len(text))]

\* The outcome of the winning rule among the match lengths lens.
Winner(text, lens, r) == RuleOutcome(text, r, lens[r])

Longest(text, lens) == Winner(text, lens, WinningRule(lens))

\* next_token: None on an empty text, else what the winning rule gives.
next_token(text) ==
    IF text = << >> THEN [m |-> "None"] ELSE Longest(text, RuleLens(text))

\* Lexer::next skips whitespace and comments.
Skipped(t) == t.m = "Some" /\ t.tok.k \in {"Whitespace", "Comment"}

RECURSIVE LexerNext(_), LexerLoop(_)
\* Lexer::next: the next token that is neither whitespace nor a comment.
LexerNext(remaining) == LexerLoop(next_token(remaining))

LexerLoop(t) == IF Skipped(t) THEN LexerNext(t.remaining) ELSE t

(***************************************************************************)
(* AST (mod ast) and parser (mod parser)                                   *)
(***************************************************************************)

\* A binary node built with its operands exchanged.
BinarySwapped(kind, lhs, rhs) == [node |-> kind, a |-> rhs, b |-> lhs]

\* Expr_ constructors.
Binary(kind, lhs, rhs) == [node |-> kind, a |-> lhs, b |-> rhs]

Var(name) == [node |-> "Var", var |-> name]

Assign(name, rhs) == [node |-> "Assign", var |-> name, b |-> rhs]

Function(name, arg) == [node |-> "Function", fname |-> name, e |-> arg]

Return(inner) == [node |-> "Return", e |-> inner]

Number(n) == [node |-> "Number", lit |-> n]

String(s) == [node |-> "String", litstr |-> s]

List(entries) == [node |-> "List", list |-> entries]

\* The kind of the token at position p, "EOF" past the end.
Kind(toks, p) == IF p <= Len(toks) THEN toks[p].k ELSE "EOF"

\* A parse of a nonterminal: the node and the position after it, or the
\* position of the token no production accepts.
Parsed(node, p) == [ok |-> TRUE, ast |-> node, pos |-> p]

Unexpected(p) == [ok |-> FALSE, pos |-> p]

TermOp(kind) == IF kind = "Plus" THEN "Add" ELSE "Sub"

FactOp(kind) == IF kind = "Star" THEN "Mul" ELSE IF kind = "Slash" THEN "Div" ELSE "Mod"

\* After the parse r of a nonterminal, the terminal kind must follow.
Expect(toks, r, kind) ==
    IF ~r.ok THEN r
    ELSE IF Kind(toks, r.pos) = kind THEN Parsed(r.ast, r.pos + 1)
    ELSE Unexpected(r.pos)

\* The node of a left operand l, an operator and a right operand r.
Combine(kind, l, r) ==
    IF ~r.ok THEN r ELSE Parsed(Binary(kind, l.ast, r.ast), r.pos)

WrapFunction(fname, r) == IF ~r.ok THEN r ELSE Parsed(Function(fname, r.ast), r.pos)

WrapAssign(var, r) == IF ~r.ok THEN r ELSE Parsed(Assign(var, r.ast), r.pos)

WrapReturn(r) == IF ~r.ok THEN r ELSE Parsed(Return(r.ast), r.pos)

\* list: object => a list of one entry
ListOf(r) == IF ~r.ok THEN r ELSE Parsed(List(<< r.ast >>), r.pos)

\* list: list Comma object => the list with the entry pushed
ListPush(l, r) ==
    IF ~r.ok THEN r ELSE Parsed(List(Append(l.ast.list, r.ast)), r.pos)

RECURSIVE ParseAssign(_, _), ParseObject(_, _), ListTail(_, _)
RECURSIVE TermTail(_, _), FactTail(_, _), ParseAtom(_, _)

\* atom: Ident | Number | String | LParen assign RParen
ParseAtom(toks, p) ==
    CASE Kind(toks, p) = "Ident"  -> Parsed(Var(toks[p].v), p + 1)
      [] Kind(toks, p) = "Number" -> Parsed(Number(toks[p].v), p + 1)
      [] Kind(toks, p) = "String" -> Parsed(String(toks[p].v), p + 1)
      [] Kind(toks, p) = "LParen" -> Expect(toks, ParseAssign(toks, p + 1), "RParen")
      [] OTHER -> Unexpected(p)

\* fact: fact (Star | Slash | Percent) atom, with l the fact parsed so far.
FactTail(toks, l) ==
    IF ~l.ok THEN l
    ELSE IF Kind(toks, l.pos) \in {"Star", "Slash", "Percent"}
         THEN FactTail(toks, Combine(FactOp(Kind(toks, l.pos)), l,
                                     ParseAtom(toks, l.pos + 1)))
         ELSE l

\* fact: ... | atom
ParseFact(toks, p) == FactTail(toks, ParseAtom(toks, p))

\* term: term (Plus | Minus) fact, with l the term parsed so far.
TermTail(toks, l) ==
    IF ~l.ok THEN l
    ELSE IF Kind(toks, l.pos) \in {"Plus", "Minus"}
         THEN TermTail(toks, Combine(TermOp(Kind(toks, l.pos)), l,
                                     ParseFact(toks, l.pos + 1)))
         ELSE l

\* term: ... | fact
ParseTerm(toks, p) == TermTail(toks, ParseFact(toks, p))

\* list: list Comma object, with l the list parsed so far.
ListTail(toks, l) ==
    IF ~l.ok THEN l
    ELSE IF Kind(toks, l.pos) = "Comma"
         THEN ListTail(toks, ListPush(l, ParseObject(toks, l.pos + 1)))
         ELSE l

\* list: object | ...
ParseList(toks, p) == ListTail(toks, ListOf(ParseObject(toks, p)))

\* object: LBracket list RBracket | LBracket RBracket | term
ParseObject(toks, p) ==
    IF Kind(toks, p) = "LBracket"
    THEN IF Kind(toks, p + 1) = "RBracket"
         THEN Parsed(List(<< >>), p + 2)
         ELSE Expect(toks, ParseList(toks, p + 1), "RBracket")
    ELSE ParseTerm(toks, p)

\* assign: Ident LParen assign RParen | Ident Equals assign | object
ParseAssign(toks, p) ==
    IF Kind(toks, p) = "Ident" /\ Kind(toks, p + 1) \in {"LParen", "Equals"}
    THEN IF Kind(toks, p + 1) = "LParen"
         THEN WrapFunction(toks[p].v, Expect(toks, ParseAssign(toks, p + 2), "RParen"))
         ELSE WrapAssign(toks[p].v, ParseAssign(toks, p + 2))
    ELSE ParseObject(toks, p)

\* ret: Return assign | assign
ParseRet(toks, p) ==
    IF Kind(toks, p) = "Return"
    THEN WrapReturn(ParseAssign(toks, p + 1))
    ELSE ParseAssign(toks, p)

RECURSIVE ParseStatements(_, _, _), StatementsPush(_, _, _)
\* statements: (empty) | statements ret Semi, with st the statements so far.
ParseStatements(toks, st, p) ==
    IF p > Len(toks) THEN Parsed(st, p)
    ELSE StatementsPush(toks, st, Expect(toks, ParseRet(toks, p), "Semi"))

\* st.push(r); st
StatementsPush(toks, st, r) ==
    IF ~r.ok THEN r ELSE ParseStatements(toks, Append(st, r.ast), r.pos)

\* program: statements
ParseProgram(toks) == ParseStatements(toks, << >>, 1)

\* A parse either succeeded or failed only for want of more tokens.
ViableParse(toks, r) == r.ok \/ r.pos > Len(toks)

\* The tokens read so far can still be continued to a program: the LR
\* parser rejects the first token that cannot.
Viable(toks) == ViableParse(toks, ParseProgram(toks))

\* What parse_ returns at the end of the tokens.
ParseEnd(toks, r) ==
    IF r.ok THEN [r |-> "Ok", stmts |-> r.ast, tokens |-> toks]
    ELSE [r |-> "Err", tokens |-> toks, at |-> << >>]

RECURSIVE parse_(_, _), ParsePull(_, _)
\* parse_ over the lazy lexer: the parser pulls one token at a time, and
\* stops at the first token it rejects without reading further.
parse_(remaining, toks) == ParsePull(toks, LexerNext(remaining))

\* parse_ with t the token pulled after toks.
ParsePull(toks, t) ==
    CASE t.m = "Panic" -> [r |-> "Panic", tokens |-> toks]
      [] t.m = "None" -> ParseEnd(toks, ParseProgram(toks))
      [] OTHER ->
            IF Viable(Append(toks, t.tok))
            THEN parse_(t.remaining, Append(toks, t.tok))
            ELSE [r |-> "Err", tokens |-> Append(toks, t.tok), at |-> << t.tok >>]

\* parser::parse
parse(code) == parse_(code, << >>)

(***************************************************************************)
(* Values (DataType), errors (QueryError) and f64 arithmetic               *)
(***************************************************************************)

DTNone == [t |-> "None"]

DTNumber(x) == [t |-> "Number", num |-> x]

DTString(s) == [t |-> "String", str |-> s]

DTList(l) == [t |-> "List", items |-> l]

DTFunction(fn) == [t |-> "Function", f |-> fn]

\* QueryError variants.  A message is the literal of the source, or the
\* identifier the error names.
ParsingError == [kind |-> "ParsingError"]

VariableNotDefined(name) == [kind |-> "VariableNotDefined", msg |-> [name |-> name]]

MathError(text) == [kind |-> "MathError", msg |-> [text |-> text]]

InvalidType(text) == [kind |-> "InvalidType", msg |-> [text |-> text]]

InvalidTypeNamed(name) == [kind |-> "InvalidType", msg |-> [name |-> name]]

Ok(val) == [tag |-> "Ok", v |-> val]

Err(error) == [tag |-> "Err", e |-> error]

\* No Result: nothing has returned yet.
NoRet == [tag |-> "None"]

Sgn(n) == IF n < 0 THEN -1 ELSE IF n > 0 THEN 1 ELSE 0

\* An f64 from a numerator and a denominator: a fraction, or with d = 0
\* an infinity (n # 0) or NaN (n = 0).  The sign of zero is not modelled.
F64(n, d) == IF d = 0 THEN << Sgn(n), 0 >> ELSE Frac(n, d)

FNeg(x) == << -x[1], x[2] >>

FAdd(x, y) ==
    IF x[2] = 0 /\ y[2] = 0
    THEN (IF x = y THEN x ELSE NaN)
    ELSE F64(x[1] * y[2] + y[1] * x[2], x[2] * y[2])

FSub(x, y) == FAdd(x, FNeg(y))

FMul(x, y) == F64(x[1] * y[1], x[2] * y[2])

\* 1 / y
FRecip(y) ==
    IF y[2] = 0 THEN (IF y[1] = 0 THEN NaN ELSE << 0, 1 >>)
    ELSE IF y[1] = 0 THEN << 1, 0 >>
    ELSE Frac(y[2], y[1])

FDiv(x, y) == FMul(x, FRecip(y))

\* The f64 remainder (fmod): x - y * trunc(x / y), the sign of x.
FMod(x, y) ==
    IF x[2] = 0 \/ y[1] = 0 THEN NaN
    ELSE IF y[2] = 0 THEN x
    ELSE LET q == (Abs(x[1]) * y[2]) \div (x[2] * Abs(y[1]))
             t == Sgn(x[1]) * Sgn(y[1]) * q
         IN  FSub(x, FMul(y, << t, 1 >>))

\* b_num == 0.0
IsZero(x) == x[1] = 0 /\ x[2] # 0

(***************************************************************************)
(* Native functions (mod functions)                                        *)
(***************************************************************************)

\* The "{:?}" rendering of a value, as a line of output.
Debug(val) == [debug |-> val]

\* q_print: prints each argument and returns None.
q_print(args) ==
    [res |-> Ok(DTNone), out |-> [k \in 1..Len(args) |-> Debug(args[k])]]

\* fill_env: the names the host binds before evaluation.
fill_env(env) == (<<"p", "r", "i", "n", "t">> :> DTFunction("q_print")) @@ env

\* get_env: a new environment, filled.
get_env == fill_env(<< >>)

\* An insert that keeps the value of a key already present.
EnvInsertKeepsOld(env, var, val) ==
    [k \in (DOMAIN env) \cup {var} |-> IF k \in DOMAIN env THEN env[k] ELSE val]

\* env.insert(var, val)
EnvInsert(env, var, val) ==
    [k \in (DOMAIN env) \cup {var} |-> IF k = var THEN val ELSE env[k]]

\* env.get(var): Some(v) as <<v>>, None as <<>>.
EnvGet(env, var) == IF var \in DOMAIN env THEN << env[var] >> ELSE << >>

(***************************************************************************)
(* Interpreter (mod interpret) and the entry point query                   *)
(*                                                                         *)
(* interpret_expr recurses over the tree; the recursion is the stack of    *)
(* frames below, one per call in progress.  A frame holds its node, the    *)
(* node's path in the program (statement number, then child numbers), the  *)
(* number of recursive calls it has made (pc) and the values they gave     *)
(* (loc).  ret holds the Result the last finished call returned.           *)
(*                                                                         *)
(* trace is a history variable: what the evaluation did, in order.         *)
(***************************************************************************)

VARIABLES code, pc, stderr, program, env, last_i, i, stack, ret, result,
          stdout, trace

vars == << code, pc, stderr, program, env, last_i, i, stack, ret, result,
           stdout, trace >>

\* p.stmts.len() - 1 of an empty program where the subtraction wraps:
\* usize::MAX, written as the integer it is congruent to.
UsizeMax == -1

Panic(text) == [tag |-> "Panic", msg |-> text]

Frame(expr, path) == [e |-> expr, path |-> path, pc |-> 0, loc |-> << >>]

Top == stack[Len(stack)]

\* Events of the trace.
Enter(path) == [ev |-> "enter", path |-> path]

Exit(path, res) == [ev |-> "exit", path |-> path, res |-> res]

AssignEv(path, var, val) == [ev |-> "assign", path |-> path, var |-> var, val |-> val]

ReadEv(path, var, res) == [ev |-> "read", path |-> path, var |-> var, res |-> res]

EmitEv(path, line) == [ev |-> "emit", path |-> path, line |-> line]

CallEv(path, fname, args) == [ev |-> "call", path |-> path, fname |-> fname, args |-> args]

\* An arm of interpret_expr is at work on the node on top of the stack.
InArm(kinds) == pc = "loop" /\ stack # << >> /\ Top.e.node \in kinds

\* The call on top returns res.
Returns(res, evs) ==
    /\ stack' = SubSeq(stack, 1, Len(stack) - 1)
    /\ ret' = res
    /\ trace' = trace \o evs \o << Exit(Top.path, res) >>

\* The call on top keeps loc and calls interpret_expr on a child.
Calls(child, loc) ==
    /\ stack' = Append([stack EXCEPT ![Len(stack)] =
                           [e |-> Top.e, path |-> Top.path,
                            pc |-> Top.pc + 1, loc |-> loc]],
                       Frame(child.e, Append(Top.path, child.idx)))
    /\ ret' = NoRet
    /\ trace' = Append(trace, Enter(Append(Top.path, child.idx)))

\* The operands of a binary node, right operand first.
OperandsSwapped(expr) == << [idx |-> 2, e |-> expr.b], [idx |-> 1, e |-> expr.a] >>

\* The operands of a binary node in the order they are evaluated.
Operands(expr) == << [idx |-> 1, e |-> expr.a], [idx |-> 2, e |-> expr.b] >>

InvalidTypeText(kind) ==
    IF kind = "Add" THEN "Cannot add something that is not a number!"
    ELSE "Cannot sub something that is not a number!"

\* What each arithmetic arm does with two numbers.
AddNum(a_num, b_num) == Ok(DTNumber(FAdd(a_num, b_num)))

SubNum(a_num, b_num) == Ok(DTNumber(FSub(a_num, b_num)))

MulNum(a_num, b_num) == Ok(DTNumber(FMul(a_num, b_num)))

DivNum(a_num, b_num) ==
    IF IsZero(b_num) THEN Err(MathError("Tried to divide by zero!"))
    ELSE Ok(DTNumber(FDiv(a_num, b_num)))

ModNum(a_num, b_num) == Ok(DTNumber(FMod(a_num, b_num)))

\* A binary arm once both operands have values: both must be numbers.
Arith(kind, a_res, b_res) ==
    IF a_res.t # "Number" THEN Err(InvalidType(InvalidTypeText(kind)))
    ELSE IF b_res.t # "Number" THEN Err(InvalidType(InvalidTypeText(kind)))
    ELSE CASE kind = "Add" -> AddNum(a_res.num, b_res.num)
           [] kind = "Sub" -> SubNum(a_res.num, b_res.num)
           [] kind = "Mul" -> MulNum(a_res.num, b_res.num)
           [] kind = "Div" -> DivNum(a_res.num, b_res.num)
           [] kind = "Mod" -> ModNum(a_res.num, b_res.num)

\* A binary arm: evaluate one operand, then the other (each with ?), then
\* compute.
BinaryStep(kind, ops) ==
    CASE Top.pc = 0 -> Calls(ops[1], << >>)
      [] Top.pc = 1 ->
            IF ret.tag = "Err" THEN Returns(ret, << >>)
            ELSE Calls(ops[2], << ret.v >>)
      [] Top.pc = 2 ->
            IF ret.tag = "Err" THEN Returns(ret, << >>)
            ELSE Returns(Arith(kind,
                               IF ops[1].idx = 1 THEN Top.loc[1] ELSE ret.v,
                               IF ops[1].idx = 1 THEN ret.v ELSE Top.loc[1]),
                         << >>)

ArmAdd ==
    /\ InArm({"Add"})
    /\ BinaryStep("Add", Operands(Top.e))
    /\ UNCHANGED << code, pc, stderr, program, env, last_i, i, result, stdout >>

ArmSub ==
    /\ InArm({"Sub"})
    /\ BinaryStep("Sub", Operands(Top.e))
    /\ UNCHANGED << code, pc, stderr, program, env, last_i, i, result, stdout >>

ArmMul ==
    /\ InArm({"Mul"})
    /\ BinaryStep("Mul", Operands(Top.e))
    /\ UNCHANGED << code, pc, stderr, program, env, last_i, i, result, stdout >>

ArmDiv ==
    /\ InArm({"Div"})
    /\ BinaryStep("Div", Operands(Top.e))
    /\ UNCHANGED << code, pc, stderr, program, env, last_i, i, result, stdout >>

ArmMod ==
    /\ InArm({"Mod"})
    /\ BinaryStep("Mod", Operands(Top.e))
    /\ UNCHANGED << code, pc, stderr, program, env, last_i, i, result, stdout >>

ArmAssign ==
    /\ InArm({"Assign"})
    /\ IF Top.pc = 0
       THEN Calls([idx |-> 1, e |-> Top.e.b], << >>) /\ UNCHANGED env
       ELSE IF ret.tag = "Err"
            THEN Returns(ret, << >>) /\ UNCHANGED env
            ELSE /\ env' = EnvInsert(env, Top.e.var, ret.v)
                 /\ Returns(Ok(ret.v), << AssignEv(Top.path, Top.e.var, ret.v) >>)
    /\ UNCHANGED << code, pc, stderr, program, last_i, i, result, stdout >>

\* A Var arm that reads a missing variable as None.
VarResultDefaultsNone(got, var) ==
    IF Len(got) = 1 THEN Ok(got[1]) ELSE Ok(DTNone)

\* What the Var arm returns for the outcome of env.get.
VarResult(got, var) ==
    IF Len(got) = 1 THEN Ok(got[1]) ELSE Err(VariableNotDefined(var))

ArmVar ==
    /\ InArm({"Var"})
    /\ LET res == VarResult(EnvGet(env, Top.e.var), Top.e.var)
       IN  Returns(res, << ReadEv(Top.path, Top.e.var, res) >>)
    /\ UNCHANGED << code, pc, stderr, program, env, last_i, i, result, stdout >>

ArmNumber ==
    /\ InArm({"Number"})
    /\ Returns(Ok(DTNumber(Top.e.lit)), << >>)
    /\ UNCHANGED << code, pc, stderr, program, env, last_i, i, result, stdout >>

ArmString ==
    /\ InArm({"String"})
    /\ Returns(Ok(DTString(Top.e.litstr)), << >>)
    /\ UNCHANGED << code, pc, stderr, program, env, last_i, i, result, stdout >>

\* What the Return arm prints for the value of its expression.
ReturnPrints(val) == << Debug(val) >>

ArmReturn ==
    /\ InArm({"Return"})
    /\ IF Top.pc = 0
       THEN Calls([idx |-> 1, e |-> Top.e.e], << >>) /\ UNCHANGED stdout
       ELSE IF ret.tag = "Err"
            THEN Returns(ret, << >>) /\ UNCHANGED stdout
            ELSE LET out == ReturnPrints(ret.v)
                 IN  /\ stdout' = stdout \o out
                     /\ Returns(Ok(ret.v),
                                [k \in 1..Len(out) |-> EmitEv(Top.path, out[k])])
    /\ UNCHANGED << code, pc, stderr, program, env, last_i, i, result >>

\* The native function a function pointer points to, called.
CallNative(f, args) == CASE f = "q_print" -> q_print(args)

\* A Function arm that reports a name bound to a non-function as undefined.
CallResultIgnoresType(got, fname, args) ==
    IF Len(got) = 0 \/ got[1].t # "Function"
    THEN [called |-> FALSE, res |-> Err(VariableNotDefined(fname)), out |-> << >>]
    ELSE [called |-> TRUE, res |-> CallNative(got[1].f, args).res,
          out |-> CallNative(got[1].f, args).out]

\* The Function arm once its argument has a value: look the name up,
\* require a function, call it.
CallResult(got, fname, args) ==
    IF Len(got) = 0
    THEN [called |-> FALSE, res |-> Err(VariableNotDefined(fname)), out |-> << >>]
    ELSE IF got[1].t # "Function"
    THEN [called |-> FALSE, res |-> Err(InvalidTypeNamed(fname)), out |-> << >>]
    ELSE LET r == CallNative(got[1].f, args)
         IN  [called |-> TRUE, res |-> r.res, out |-> r.out]

ArmFunction ==
    /\ InArm({"Function"})
    /\ IF Top.pc = 0
       THEN Calls([idx |-> 1, e |-> Top.e.e], << >>) /\ UNCHANGED stdout
       ELSE IF ret.tag = "Err"
            THEN Returns(ret, << >>) /\ UNCHANGED stdout
            ELSE LET args == << ret.v >>
                     c    == CallResult(EnvGet(env, Top.e.fname), Top.e.fname, args)
                 IN  /\ stdout' = stdout \o c.out
                     /\ Returns(c.res,
                                (IF c.called
                                 THEN << CallEv(Top.path, Top.e.fname, args) >>
                                 ELSE << >>)
                                \o [k \in 1..Len(c.out) |-> EmitEv(Top.path, c.out[k])])
    /\ UNCHANGED << code, pc, stderr, program, env, last_i, i, result >>

\* The List arm: Top.pc entries have been called, Top.loc holds the values
\* of those that returned before the last.
ArmList ==
    /\ InArm({"List"})
    /\ LET list == Top.e.list
           l    == IF Top.pc = 0 THEN << >> ELSE Append(Top.loc, ret.v)
       IN  IF Top.pc > 0 /\ ret.tag = "Err" THEN Returns(ret, << >>)
           ELSE IF Top.pc < Len(list)
                THEN Calls([idx |-> Top.pc + 1, e |-> list[Top.pc + 1]], l)
                ELSE Returns(Ok(DTList(l)), << >>)
    /\ UNCHANGED << code, pc, stderr, program, env, last_i, i, result, stdout >>

interpret_expr ==
    \/ ArmAdd \/ ArmSub \/ ArmMul \/ ArmDiv \/ ArmMod
    \/ ArmAssign \/ ArmVar \/ ArmNumber \/ ArmString
    \/ ArmReturn \/ ArmFunction \/ ArmList

\* interpret_prog up to its loop: last_i, env, i.  The subtraction of an
\* empty program panics in a build that checks overflow and wraps in one
\* that does not.
interpret_prog ==
    /\ pc = "interpret_prog"
    /\ \E overflow_checks \in BOOLEAN :
          IF Len(program) = 0 /\ overflow_checks
          THEN /\ pc' = "panic"
               /\ result' = Panic("attempt to subtract with overflow")
               /\ UNCHANGED << last_i, env, i >>
          ELSE /\ last_i' = IF Len(program) = 0 THEN UsizeMax ELSE Len(program) - 1
               /\ env' = get_env
               /\ i' = 0
               /\ pc' = "loop"
               /\ UNCHANGED result
    /\ UNCHANGED << code, stderr, program, stack, ret, stdout, trace >>

\* A loop body that drops the error of a statement that is not the last.
AfterStatementSwallows(rt, idx, last) ==
    IF idx = last THEN (IF rt.tag = "Err" THEN rt ELSE Ok(rt.v)) ELSE NoRet

\* A loop body that returns the value of the first statement.
AfterStatementReturnsFirst(rt, idx, last) ==
    IF rt.tag = "Err" THEN rt ELSE Ok(rt.v)

\* The loop body after interpret_expr returned rt for statement idx: the
\* Result to return, or NoRet to go on with the next statement.
AfterStatement(rt, idx, last) ==
    IF rt.tag = "Err" THEN rt
    ELSE IF idx = last THEN Ok(rt.v)
    ELSE NoRet

\* The loop of interpret_prog: call interpret_expr on the next statement,
\* or take what it returned; past the last statement, panic.
interpret_prog_loop ==
    /\ pc = "loop" /\ stack = << >>
    /\ IF ret = NoRet
       THEN IF i < Len(program)
            THEN /\ stack' = << Frame(program[i + 1], << i + 1 >>) >>
                 /\ trace' = Append(trace, Enter(<< i + 1 >>))
                 /\ UNCHANGED << pc, result, i, ret >>
            ELSE /\ pc' = "panic"
                 /\ result' = Panic("This should be unreachable!")
                 /\ UNCHANGED << stack, trace, i, ret >>
       ELSE LET r == AfterStatement(ret, i, last_i)
            IN  IF r = NoRet
                THEN /\ i' = i + 1
                     /\ ret' = NoRet
                     /\ UNCHANGED << pc, result, stack, trace >>
                ELSE /\ result' = r
                     /\ pc' = "done"
                     /\ UNCHANGED << i, ret, stack, trace >>
    /\ UNCHANGED << code, stderr, program, env, last_i, stdout >>

\* What query prints for a parse error: the rejected token, if any.
ParseErrorLine(p) == [parse_error |-> p.at]

\* query with p what parser::parse returned.
QueryParsed(p) ==
    /\ stderr' = p.tokens
    /\ pc' = CASE p.r = "Panic" -> "panic"
               [] p.r = "Err" -> "done"
               [] OTHER -> "interpret_prog"
    /\ program' = IF p.r = "Ok" THEN p.stmts ELSE << >>
    /\ stdout' = IF p.r = "Err" THEN << ParseErrorLine(p) >> ELSE << >>
    /\ result' = CASE p.r = "Panic" -> Panic("unexpected character")
                   [] p.r = "Err" -> Err(ParsingError)
                   [] OTHER -> NoRet

\* query: lex and parse the code, then interpret the program.
query ==
    /\ pc = "query"
    /\ QueryParsed(parse(code))
    /\ UNCHANGED << code, env, last_i, i, stack, ret, trace >>

(***************************************************************************)
(* The sources explored                                                    *)
(***************************************************************************)

\* Every text of at most MaxSrcLen characters of ShortAlphabet.
MaxSrcLen == 4

ShortAlphabet == {"1", ";", " ", "#", "\n", "@"}

ShortSources == UNION {[1..n -> ShortAlphabet] : n \in 0..MaxSrcLen}

\* One arithmetic statement of at most three literals 1..MaxLit, every
\* operator and both ways to parenthesise.
MaxLit == 3

ArithLits == {<< c >> : c \in {d \in DigitChars : DigitValue(d) \in 1..MaxLit}}

ArithOps == {<< "+" >>, << "-" >>, << "*" >>, << "/" >>, << "%" >>}

ArithSources ==
    {a \o << ";" >> : a \in ArithLits}
    \cup {a \o o \o b \o << ";" >> : a \in ArithLits, o \in ArithOps, b \in ArithLits}
    \cup UNION {{a \o o1 \o b \o o2 \o c \o << ";" >>,
                 << "(" >> \o a \o o1 \o b \o << ")" >> \o o2 \o c \o << ";" >>,
                 a \o o1 \o << "(" >> \o b \o o2 \o c \o << ")" >> \o << ";" >>} :
                a \in ArithLits, o1 \in ArithOps, b \in ArithLits,
                o2 \in ArithOps, c \in ArithLits}

\* Operands of a binary operator: numbers, a string, a read, an
\* assignment, a call that prints, a division by zero.
OperandTexts ==
    { << "1" >>,   \* '1'
      << "0" >>,   \* '0'
      << "\"", "s", "\"" >>,   \* '"s"'
      << "x" >>,   \* 'x'
      << "(", "x", "=", "2", ")" >>,   \* '(x=2)'
      << "(", "p", "r", "i", "n", "t", "(", "3", ")", ")" >>,   \* '(print(3))'
      << "(", "1", "/", "0", ")" >> }   \* '(1/0)'

\* One statement: an operator between two operands.
BinarySources ==
    {a \o o \o b \o << ";" >> : a \in OperandTexts, o \in ArithOps, b \in OperandTexts}

\* Statements that assign, read, call, return and fail.
StatementTexts ==
    { << "x", "=", "1" >>,   \* 'x=1'
      << "y", "=", "x" >>,   \* 'y=x'
      << "x" >>,   \* 'x'
      << "p", "r", "i", "n", "t" >>,   \* 'print'
      << "p", "r", "i", "n", "t", "(", "x", ")" >>,   \* 'print(x)'
      << "p", "r", "i", "n", "t", "=", "2" >>,   \* 'print=2'
      << "x", "(", "1", ")" >>,   \* 'x(1)'
      << "r", "e", "t", "u", "r", "n", " ", "x" >>,   \* 'return x'
      << "r", "e", "t", "u", "r", "n", " ", "1" >>,   \* 'return 1'
      << "1", "/", "0" >>,   \* '1/0'
      << "[", "x", ",", "(", "y", "=", "2", ")", "]" >>,   \* '[x,(y=2)]'
      << "(", "y", "=", "2", ")", "+", "x" >>,   \* '(y=2)+x'
      << "x", "=", "\"", "s", "\"" >>,   \* 'x="s"'
      << "r", "e", "t", "u", "r", "n", " ", "p", "r", "i", "n", "t", "(", "1", ")" >>,   \* 'return print(1)'
      << "y" >>,   \* 'y'
      << "f", "(", "y", "=", "3", ")" >>,   \* 'f(y=3)'
      << "(", "x", "=", "2", ")", "+", "x" >> }   \* '(x=2)+x'

RECURSIVE ProgramText(_)
\* The statements of a sequence, each ended by a semicolon.
ProgramText(sts) ==
    IF sts = << >> THEN << >>
    ELSE sts[1] \o << ";" >> \o ProgramText(Tail(sts))

\* Every program of at most MaxStmts of these statements.
MaxStmts == 2

ProgramSources ==
    UNION {{ProgramText(sts) : sts \in [1..n -> StatementTexts]} : n \in 1..MaxStmts}

\* Single sources: the examples of the documentation and lexical corners.
ExampleSources ==
    { << "x", " ", "=", " ", "5", ";", " ", "y", " ", "=", " ", "x", " ", "+", " ", "3", ";", " ", "y", " ", "*", " ", "2", ";" >>,   \* 'x = 5; y = x + 3; y * 2;'
      << "p", "r", "i", "n", "t", "(", "[", "1", ",", "2", "]", ")", ";" >>,   \* 'print([1,2]);'
      << "1", " ", "/", " ", "0", ";" >>,   \* '1 / 0;'
      << "1", "+", "2", ";" >>,   \* '1+2;'
      << "1", " ", "+", " ", "2", ";", " ", "#", " ", "n", "o", "t", "e", "\n" >>,   \* '1 + 2; # note\n'
      << "[", "1", ",", " ", "2", ",", " ", "3", "]", ";" >>,   \* '[1, 2, 3];'
      << "[", "]", ";" >>,   \* '[];'
      << "1", " ", "+", " ", "2", " ", "*", " ", "3", ";" >>,   \* '1 + 2 * 3;'
      << "8", " ", "-", " ", "3", " ", "-", " ", "2", ";" >>,   \* '8 - 3 - 2;'
      << "8", " ", "/", " ", "4", " ", "/", " ", "2", ";" >>,   \* '8 / 4 / 2;'
      << "(", "1", " ", "+", " ", "2", ")", " ", "*", " ", "3", ";" >>,   \* '(1 + 2) * 3;'
      << "1", ".", "5", " ", "*", " ", "2", ";" >>,   \* '1.5 * 2;'
      << "x", " ", "=", " ", "1", ";", " ", "#", " ", "c" >>,   \* 'x = 1; # c'
      << "r", "e", "t", "u", "r", "n", "x", " ", "=", " ", "1", ";", " ", "r", "e", "t", "u", "r", "n", "x", ";" >>,   \* 'returnx = 1; returnx;'
      << "\"", "a", "\"", " ", "+", " ", "1", ";" >>,   \* '"a" + 1;'
      << "\"", "a", "b", "c" >>,   \* '"abc'
      << "9", "9", "9", "9", "9", " ", "%", " ", "1", "0", ";" >> }   \* '99999 % 10;'

Sources ==
    ShortSources \cup ArithSources \cup BinarySources \cup ProgramSources
    \cup ExampleSources

Init ==
    /\ code \in Sources
    /\ pc = "query"
    /\ stderr = << >>
    /\ program = << >>
    /\ env = << >>
    /\ last_i = 0
    /\ i = 0
    /\ stack = << >>
    /\ ret = NoRet
    /\ result = NoRet
    /\ stdout = << >>
    /\ trace = << >>

Next == query \/ interpret_prog \/ interpret_prog_loop \/ interpret_expr

Spec == Init /\ [][Next]_vars

(***************************************************************************)
(* Reading the trace and the program                                       *)
(***************************************************************************)

BinaryKinds == {"Add", "Sub", "Mul", "Div", "Mod"}

\* The child idx of a node.
Child(expr, idx) ==
    CASE expr.node \in BinaryKinds -> IF idx = 1 THEN expr.a ELSE expr.b
      [] expr.node = "Assign" -> expr.b
      [] expr.node \in {"Function", "Return"} -> expr.e
      [] expr.node = "List" -> expr.list[idx]

RECURSIVE Descend(_, _)
Descend(expr, path) ==
    IF path = << >> THEN expr ELSE Descend(Child(expr, path[1]), Tail(path))

\* The node of the program at a path.
NodeAt(path) == Descend(program[path[1]], Tail(path))

IsPrefix(p, q) == Len(p) <= Len(q) /\ SubSeq(q, 1, Len(p)) = p

\* The position in the trace of the event of a kind at a path, 0 if none.
EventAt(kind, path) ==
    IF \E k \in DOMAIN trace : trace[k].ev = kind /\ trace[k].path = path
    THEN CHOOSE k \in DOMAIN trace : trace[k].ev = kind /\ trace[k].path = path
    ELSE 0

\* The position of the last assignment to var before position j, 0 if none.
LastAssign(j, var) ==
    IF \E k \in 1..(j - 1) : trace[k].ev = "assign" /\ trace[k].var = var
    THEN CHOOSE k \in 1..(j - 1) :
            /\ trace[k].ev = "assign" /\ trace[k].var = var
            /\ \A m \in (k + 1)..(j - 1) :
                  ~(trace[m].ev = "assign" /\ trace[m].var = var)
    ELSE 0

\* What a name is bound to at position j of the trace: the value last
\* assigned, else the value the host seeded, else nothing.
BoundAt(j, var) ==
    IF LastAssign(j, var) # 0 THEN << trace[LastAssign(j, var)].val >>
    ELSE IF var \in DOMAIN get_env THEN << get_env[var] >>
    ELSE << >>

IsErr(res, kind) == res.tag = "Err" /\ res.e.kind = kind

(***************************************************************************)
(* C1: division and remainder by zero                                      *)
(***************************************************************************)

\* C1: Div(a, b) and Mod(a, b) of two numbers fail with a math error when
\* b is 0 and do not fail with a math error when b is not 0.
C1_DivModByZero ==
    \A j \in DOMAIN trace :
        (/\ trace[j].ev = "exit"
         /\ NodeAt(trace[j].path).node \in {"Div", "Mod"}
         /\ EventAt("exit", Append(trace[j].path, 1)) # 0
         /\ EventAt("exit", Append(trace[j].path, 2)) # 0)
        => LET a == trace[EventAt("exit", Append(trace[j].path, 1))].res
               b == trace[EventAt("exit", Append(trace[j].path, 2))].res
           IN  (a.tag = "Ok" /\ b.tag = "Ok" /\ a.v.t = "Number" /\ b.v.t = "Number")
               => (IsZero(b.v.num) <=> IsErr(trace[j].res, "MathError"))

(***************************************************************************)
(* C2: the empty program                                                   *)
(***************************************************************************)

\* The source parsed to a program of zero statements.
ZeroStatements == pc # "query" /\ parse(code).r = "Ok" /\ Len(parse(code).stmts) = 0

\* C2: query on a source that parses to zero statements returns an error
\* value: it does not panic and does not return Ok.
C2_EmptyProgramIsError ==
    ZeroStatements
    => (pc # "panic" /\ result.tag # "Ok" /\ (pc = "done" => result.tag = "Err"))

(***************************************************************************)
(* C3: lexing failures                                                     *)
(***************************************************************************)

LexingError == [kind |-> "LexingError"]

\* The lexer met a character no rule matches before the parser rejected a
\* token.
LexingFailed == pc # "query" /\ parse(code).r = "Panic"

\* C3: a character that matches no lexical rule makes query return the
\* lexing error as a value; the tokenizer does not panic.
C3_LexingErrorIsValue == LexingFailed => (pc = "done" /\ result = Err(LexingError))

(***************************************************************************)
(* C4: write, then read                                                    *)
(***************************************************************************)

\* C4: a read of x after an assignment to x returns the value last
\* assigned to x, whatever was assigned to other names in between; and an
\* Assign returns the value its right side evaluated to, which is the
\* value it binds.
C4_WriteThenRead ==
    \A j \in DOMAIN trace :
        /\ (trace[j].ev = "read" /\ LastAssign(j, trace[j].var) # 0)
           => trace[j].res = Ok(trace[LastAssign(j, trace[j].var)].val)
        /\ trace[j].ev = "assign"
           => /\ trace[j + 1] = Exit(trace[j].path, Ok(trace[j].val))
              /\ trace[j - 1] = Exit(Append(trace[j].path, 1), Ok(trace[j].val))
              /\ j = Len(trace) - 1 => env[trace[j].var] = trace[j].val

\* x is assigned, another name is assigned, then x is read.
C4_Witness ==
    \E j, k, l \in DOMAIN trace :
        /\ j < k /\ k < l
        /\ trace[j].ev = "assign" /\ trace[k].ev = "assign" /\ trace[l].ev = "read"
        /\ trace[k].var # trace[j].var /\ trace[l].var = trace[j].var
        /\ trace[l].res.tag = "Ok"

(***************************************************************************)
(* C5: reading an unassigned name                                          *)
(***************************************************************************)

\* C5 as claimed: a read of a name that no Assign has assigned fails with
\* variable-not-defined(name), for every name, print included.
C5_UnassignedReadFails ==
    \A j \in DOMAIN trace :
        (trace[j].ev = "read" /\ LastAssign(j, trace[j].var) = 0)
        => trace[j].res = Err(VariableNotDefined(trace[j].var))

\* C5 amended: a read of a name that no Assign has assigned fails with
\* variable-not-defined(name) unless the host seeded the name; a read of a
\* seeded name (print) returns the native function the host bound to it.
C5_UnboundReadFails ==
    \A j \in DOMAIN trace :
        (trace[j].ev = "read" /\ LastAssign(j, trace[j].var) = 0)
        => trace[j].res = IF trace[j].var \in DOMAIN get_env
                          THEN Ok(get_env[trace[j].var])
                          ELSE Err(VariableNotDefined(trace[j].var))

\* print is read before any assignment, then an unbound name is read.
C5_Witness ==
    \E j, k \in DOMAIN trace :
        /\ j < k
        /\ trace[j].ev = "read" /\ trace[j].var \in DOMAIN get_env
        /\ trace[k].ev = "read" /\ trace[k].var \notin DOMAIN get_env
        /\ LastAssign(k, trace[k].var) = 0 /\ LastAssign(j, trace[j].var) = 0

(***************************************************************************)
(* C6: calls                                                               *)
(***************************************************************************)

\* C6: a call whose argument evaluated to a value fails with
\* variable-not-defined(name) when the name is unbound at the lookup, with
\* invalid-type(name) when it is bound to a value that is no function, and
\* otherwise calls the native function with the one argument and returns
\* what it returns.
C6_CallOutcome ==
    \A j \in DOMAIN trace :
        (/\ trace[j].ev = "exit"
         /\ NodeAt(trace[j].path).node = "Function"
         /\ trace[EventAt("exit", Append(trace[j].path, 1))].res.tag = "Ok")
        => LET fname == NodeAt(trace[j].path).fname
               arg   == trace[EventAt("exit", Append(trace[j].path, 1))].res
               bound == BoundAt(j, fname)
               call  == EventAt("call", trace[j].path)
           IN  /\ Len(bound) = 0
                  => trace[j].res = Err(VariableNotDefined(fname)) /\ call = 0
               /\ (Len(bound) = 1 /\ bound[1].t # "Function")
                  => trace[j].res = Err(InvalidTypeNamed(fname)) /\ call = 0
               /\ (Len(bound) = 1 /\ bound[1].t = "Function")
                  => /\ call # 0
                     /\ trace[call].args = << arg.v >>
                     /\ trace[j].res = CallNative(bound[1].f, << arg.v >>).res

\* print is assigned a number and then called.
C6_Witness ==
    \E j \in DOMAIN trace :
        /\ trace[j].ev = "exit"
        /\ NodeAt(trace[j].path).node = "Function"
        /\ trace[j].res = Err(InvalidTypeNamed(<< "p", "r", "i", "n", "t" >>))

(***************************************************************************)
(* C7: the first failure ends the evaluation                               *)
(***************************************************************************)

\* A step taken while an error is being returned: the error goes one call
\* up, or becomes the result of the program; nothing else changes.
C7_Propagates ==
    /\ env' = env /\ stdout' = stdout /\ i' = i
    /\ IF stack = << >>
       THEN result' = ret /\ pc' = "done" /\ trace' = trace /\ stack' = stack
       ELSE /\ stack' = SubSeq(stack, 1, Len(stack) - 1)
            /\ ret' = ret
            /\ trace' = Append(trace, Exit(Top.path, ret))
            /\ result' = result

\* C7: once the evaluation of a statement has failed, the error is the
\* result of the program, no later statement is evaluated, no binding of
\* the environment changes and nothing more is printed.
C7_FirstFailureEnds == [][ret.tag = "Err" => C7_Propagates]_vars

\* An error is on its way up from inside the first of two statements.
C7_Witness == ret.tag = "Err" /\ stack # << >> /\ i + 1 < Len(program)

(***************************************************************************)
(* C8: Return does not end the program                                     *)
(***************************************************************************)

\* The lines the trace says were printed.
Emitted == SelectSeq(trace, LAMBDA ev : ev.ev = "emit")

\* C8: when a program of n >= 1 statements has returned Ok, every statement
\* 1..n was evaluated, in order, Return or not; every Return statement
\* printed the value of its expression once and returned it; the result is
\* the value of statement n; and what was printed is what the trace says.
C8_ReturnDoesNotEnd ==
    (pc = "done" /\ result.tag = "Ok")
    => /\ Len(program) >= 1
       /\ \A k \in 1..Len(program) :
             /\ EventAt("enter", << k >>) # 0
             /\ EventAt("exit", << k >>) # 0
             /\ trace[EventAt("exit", << k >>)].res.tag = "Ok"
             /\ k > 1 => EventAt("exit", << k - 1 >>) < EventAt("enter", << k >>)
             /\ program[k].node = "Return"
                => /\ Cardinality({m \in DOMAIN trace :
                                      trace[m].ev = "emit" /\ trace[m].path = << k >>}) = 1
                   /\ trace[EventAt("emit", << k >>)].line
                        = Debug(trace[EventAt("exit", << k, 1 >>)].res.v)
                   /\ trace[EventAt("exit", << k >>)].res
                        = trace[EventAt("exit", << k, 1 >>)].res
       /\ result = trace[EventAt("exit", << Len(program) >>)].res
       /\ stdout = [m \in 1..Len(Emitted) |-> Emitted[m].line]

\* A program of two statements, the first a Return, has returned Ok.
C8_Witness ==
    /\ pc = "done" /\ result.tag = "Ok"
    /\ Len(program) >= 2 /\ program[1].node = "Return"

(***************************************************************************)
(* C9: arithmetic                                                          *)
(***************************************************************************)

\* The number of "(" less the number of ")" before position j.
RECURSIVE DepthAt(_, _)
DepthAt(text, j) ==
    IF j <= 1 THEN 0
    ELSE DepthAt(text, j - 1)
         + (IF text[j - 1] = "(" THEN 1 ELSE IF text[j - 1] = ")" THEN -1 ELSE 0)

\* The last position outside every parenthesis of a character of ops, or 0.
LastTop(text, ops) ==
    IF \E j \in DOMAIN text : text[j] \in ops /\ DepthAt(text, j) = 0
    THEN CHOOSE j \in DOMAIN text :
            /\ text[j] \in ops /\ DepthAt(text, j) = 0
            /\ \A k \in (j + 1)..Len(text) : ~(text[k] \in ops /\ DepthAt(text, k) = 0)
    ELSE 0

\* An operator applied to two values (<<v>>), none (<<>>) where an
\* operand has none or a divisor is zero.
RefApply(op, l, r) ==
    IF Len(l) = 0 \/ Len(r) = 0 THEN << >>
    ELSE CASE op = "+" -> << FAdd(l[1], r[1]) >>
           [] op = "-" -> << FSub(l[1], r[1]) >>
           [] op = "*" -> << FMul(l[1], r[1]) >>
           [] op = "/" -> IF IsZero(r[1]) THEN << >> ELSE << FDiv(l[1], r[1]) >>
           [] op = "%" -> IF IsZero(r[1]) THEN << >> ELSE << FMod(l[1], r[1]) >>

RECURSIVE RefEval(_), RefSplit(_, _, _)
\* The value of an arithmetic expression by the rules of precedence: it
\* is split at its last + or - outside parentheses, else at its last * / %
\* outside parentheses, else it is a parenthesised expression or a literal.
RefEval(text) ==
    RefSplit(text, LastTop(text, {"+", "-"}), LastTop(text, {"*", "/", "%"}))

RefSplit(text, pm, md) ==
    IF pm > 0
    THEN RefApply(text[pm], RefEval(SubSeq(text, 1, pm - 1)),
                  RefEval(SubSeq(text, pm + 1, Len(text))))
    ELSE IF md > 0
    THEN RefApply(text[md], RefEval(SubSeq(text, 1, md - 1)),
                  RefEval(SubSeq(text, md + 1, Len(text))))
    ELSE IF text[1] = "("
    THEN RefEval(SubSeq(text, 2, Len(text) - 1))
    ELSE << << DigitsValue(text), 1 >> >>

\* The expression of a statement: its text without blanks and without the
\* semicolon that ends it.
StatementExpr(text) ==
    SubSeq(SelectSeq(text, LAMBDA c : c # " "), 1,
           Len(SelectSeq(text, LAMBDA c : c # " ")) - 1)

ArithExamples ==
    { << "1", " ", "+", " ", "2", " ", "*", " ", "3", ";" >>,
      << "8", " ", "-", " ", "3", " ", "-", " ", "2", ";" >>,
      << "8", " ", "/", " ", "4", " ", "/", " ", "2", ";" >>,
      << "(", "1", " ", "+", " ", "2", ")", " ", "*", " ", "3", ";" >> }

\* The well-formed statements of number literals, operators and
\* parentheses among the sources.
ArithStatements == ArithSources \cup ArithExamples

AssignExample == << "x", " ", "=", " ", "5", ";", " ", "y", " ", "=", " ", "x", " ", "+", " ", "3", ";", " ", "y", " ", "*", " ", "2", ";" >>

\* C9: query on a statement of number literals, + - * / % and parentheses,
\* with no zero divisor, returns the number the rules of precedence give
\* (* / % before + -, both from the left, parentheses first); and
\* "x = 5; y = x + 3; y * 2;" returns Number(16).
C9_Arithmetic ==
    /\ (code \in ArithStatements /\ Len(RefEval(StatementExpr(code))) = 1)
       => /\ pc # "panic"
          /\ pc = "done"
             => result = Ok(DTNumber(RefEval(StatementExpr(code))[1]))
    /\ (code = AssignExample /\ pc = "done")
       => result = Ok(DTNumber(<< 16, 1 >>))

\* 8 - 3 - 2 has returned 3.
C9_Witness ==
    /\ code = << "8", " ", "-", " ", "3", " ", "-", " ", "2", ";" >>
    /\ pc = "done"
    /\ result = Ok(DTNumber(<< 3, 1 >>))

(***************************************************************************)
(* C10: the operands of a binary operator                                  *)
(***************************************************************************)

Parent(path) == SubSeq(path, 1, Len(path) - 1)

\* C10: the right operand of a binary node starts only after the left has
\* returned a value, and everything the left did came before; it starts
\* even when that value is no number; an error of the left or the right
\* operand is the error of the node; and when both return values of which
\* one is no number the node fails with invalid-type.
C10_OperandOrder ==
    \A j \in DOMAIN trace :
        /\ (/\ trace[j].ev = "enter"
            /\ Len(trace[j].path) >= 2
            /\ NodeAt(Parent(trace[j].path)).node \in BinaryKinds
            /\ trace[j].path[Len(trace[j].path)] = 2)
           => LET a  == Append(Parent(trace[j].path), 1)
                  ea == EventAt("exit", a)
              IN  /\ ea # 0 /\ ea < j
                  /\ trace[ea].res.tag = "Ok"
                  /\ \A k \in DOMAIN trace : IsPrefix(a, trace[k].path) => k <= ea
        /\ (trace[j].ev = "exit" /\ NodeAt(trace[j].path).node \in BinaryKinds)
           => LET ea == EventAt("exit", Append(trace[j].path, 1))
                  nb == EventAt("enter", Append(trace[j].path, 2))
                  eb == EventAt("exit", Append(trace[j].path, 2))
              IN  /\ ea # 0
                  /\ trace[ea].res.tag = "Err"
                     => nb = 0 /\ trace[j].res = trace[ea].res
                  /\ trace[ea].res.tag = "Ok"
                     => /\ nb # 0 /\ eb # 0
                        /\ trace[eb].res.tag = "Err" => trace[j].res = trace[eb].res
                        /\ (/\ trace[eb].res.tag = "Ok"
                            /\ \/ trace[ea].res.v.t # "Number"
                               \/ trace[eb].res.v.t # "Number")
                           => IsErr(trace[j].res, "InvalidType")

\* A binary node whose left operand is a string and whose right operand
\* assigned a variable has failed with invalid-type.
C10_Witness ==
    \E j, k \in DOMAIN trace :
        /\ trace[j].ev = "exit"
        /\ NodeAt(trace[j].path).node \in BinaryKinds
        /\ IsErr(trace[j].res, "InvalidType")
        /\ trace[k].ev = "assign"
        /\ IsPrefix(Append(trace[j].path, 2), trace[k].path)
        /\ trace[EventAt("exit", Append(trace[j].path, 1))].res.v.t = "String"

====
